---- MODULE Spec2Model ----
(***************************************************************************)
(* The invocation adapters of secops-mcp (src/tools/*.py): one call of an  *)
(* adapter builds an argument vector, runs an external process, and turns  *)
(* the outcome into a JSON envelope.  src/main.py registers the adapters   *)
(* as tools of the server before any call is served.                       *)
(*                                                                         *)
(* Representation of Python values                                         *)
(*   - an atomic str is a TLA+ string; None is <<>> and any other value v  *)
(*     of a parameter that may be None is Some(v) = <<v>>;                 *)
(*   - a composed str (process output, exception text, joined input) is a  *)
(*     Text: a sequence of fragments.  Concatenation is \o, `p in t` is    *)
(*     "p is a contiguous run of t", lower() and strip() act per fragment, *)
(*     split("\n") cuts at the "\n" fragments;                             *)
(*   - a dict handed to json.dumps becomes the ordered sequence of its     *)
(*     <<key, value>> pairs (the JSON object text); Loads decodes it.      *)
(***************************************************************************)
EXTENDS Integers, Sequences, FiniteSets, TLC

VARIABLES
    pc,               \* "import" while main.py is being loaded, then the position of
                      \* the one call: "idle" | "running" | "done"
    tool,             \* adapter being called ("none" when idle)
    args,             \* the call's arguments, a record of optional values
    cmd,              \* argument vector handed to subprocess.run
    input_data,       \* standard-input payload (None or Some(Text))
    timeout_seconds,  \* execution bound given to subprocess.run (None or Some(n))
    proc,             \* external process: "none" | "exits" | "hangs" | "exited" | "killed"
    outcome,          \* what subprocess.run produced, None while there is none
    returned,         \* envelopes (JSON texts) the call has returned to its caller
    raised,           \* exceptions that left the adapter, as a sequence
    argv,             \* argument vector the started process received, <<>> if none
    peer,             \* another adapter call in flight at the same time, or None
    registry          \* names main.py has registered as tools, in order

vars ==
    <<pc, tool, args, cmd, input_data, timeout_seconds, proc, outcome, returned, raised,
      argv, peer, registry>>

-----------------------------------------------------------------------------
(* Bounds of the model *)

MaxOut == 3       \* lines of standard output of a zero-exit JSON-lines process
MaxErr == 2       \* fragments of stdout and stderr together on a failed httpx exit

-----------------------------------------------------------------------------
(* Python values *)

None == <<>>
Some(v) == <<v>>
Val(o) == o[1]

\* truthiness of an Optional[str], Optional[int], Optional[list], bool
TruthyStr(o) == o # None /\ Val(o) # ""
TruthyInt(o) == o # None /\ Val(o) # 0
TruthyList(o) == o # None /\ Val(o) # <<>>

Max(a, b) == IF a >= b THEN a ELSE b

-----------------------------------------------------------------------------
(* Text: str operations used by the adapters *)

Whitespace == {" ", "\n"}

\* str.lower(), fragment by fragment
Lower(f) ==
    CASE f = "Required Dependencies" -> "required dependencies"
      [] f = "Not Found" -> "not found"
      [] f = "Command '[" -> "command '["
      [] f = "MD5" -> "md5"
      [] f = "NTLM" -> "ntlm"
      [] f = "Whirlpool" -> "whirlpool"
      [] OTHER -> f

LowerText(t) == [i \in 1..Len(t) |-> Lower(t[i])]

\* `p in t` for str
Contains(t, p) == \E i \in 0..(Len(t) - Len(p)) : SubSeq(t, i + 1, i + Len(p)) = p

RECURSIVE LStrip(_)
LStrip(t) == IF t # <<>> /\ Head(t) \in Whitespace THEN LStrip(Tail(t)) ELSE t

RECURSIVE RStrip(_)
RStrip(t) ==
    IF t # <<>> /\ t[Len(t)] \in Whitespace THEN RStrip(SubSeq(t, 1, Len(t) - 1)) ELSE t

\* str.strip()
Strip(t) == RStrip(LStrip(t))

\* str.split('\n'): always at least one piece
RECURSIVE Split(_)
Split(t) ==
    IF \A i \in 1..Len(t) : t[i] # "\n"
    THEN <<t>>
    ELSE LET i == CHOOSE j \in 1..Len(t) : t[j] = "\n" /\ \A k \in 1..(j - 1) : t[k] # "\n"
         IN  <<SubSeq(t, 1, i - 1)>> \o Split(SubSeq(t, i + 1, Len(t)))

\* sep.join(items) for a list of atomic strings, as a Text
RECURSIVE Join(_, _)
Join(sep, items) ==
    IF items = <<>> THEN <<>>
    ELSE IF Len(items) = 1 THEN <<items[1]>>
    ELSE <<items[1], sep>> \o Join(sep, Tail(items))

\* sep.join(items) as one atomic string (an argument-vector element)
RECURSIVE JoinStr(_, _)
JoinStr(sep, items) ==
    IF items = <<>> THEN ""
    ELSE IF Len(items) = 1 THEN items[1]
    ELSE items[1] \o sep \o JoinStr(sep, Tail(items))

\* all sequences over S of length at most n
SeqsUpTo(S, n) == UNION {[1..k -> S] : k \in 0..n}

-----------------------------------------------------------------------------
(* Exceptions, and json *)

CalledProcessError(c, rc, out, err) ==
    [type |-> "CalledProcessError", cmd |-> c, returncode |-> rc, stdout |-> out, stderr |-> err]
TimeoutExpired(c, t) == [type |-> "TimeoutExpired", cmd |-> c, timeout |-> t]
FileNotFoundError(prog) == [type |-> "FileNotFoundError", filename |-> prog]
PermissionError(prog) == [type |-> "PermissionError", filename |-> prog]
TypeError(msg) == [type |-> "TypeError", msg |-> msg]
AttributeError(msg) == [type |-> "AttributeError", msg |-> msg]
UnicodeDecodeError == [type |-> "UnicodeDecodeError"]
RecursionError == [type |-> "RecursionError"]

\* the classes an exception is an instance of
Bases(e) ==
    CASE e.type = "CalledProcessError" -> {"CalledProcessError", "SubprocessError", "Exception"}
      [] e.type = "TimeoutExpired" -> {"TimeoutExpired", "SubprocessError", "Exception"}
      [] e.type = "FileNotFoundError" -> {"FileNotFoundError", "OSError", "Exception"}
      [] e.type = "PermissionError" -> {"PermissionError", "OSError", "Exception"}
      [] e.type = "UnicodeDecodeError" -> {"UnicodeDecodeError", "ValueError", "Exception"}
      [] e.type = "RecursionError" -> {"RecursionError", "RuntimeError", "Exception"}
      [] OTHER -> {e.type, "Exception"}

IsInstance(e, class) == class \in Bases(e)

\* the argument vector as the exception text shows it
CmdText(c) == Join(", ", [i \in 1..Len(c) |-> Val(c[i])])

\* str(e)
Str(e) ==
    CASE e.type = "CalledProcessError" ->
            <<"Command '[">> \o CmdText(e.cmd)
                \o <<"]' returned non-zero exit status ", ToString(e.returncode), ".">>
      [] e.type = "TimeoutExpired" ->
            <<"Command '[">> \o CmdText(e.cmd)
                \o <<"]' timed out after ", ToString(e.timeout), " seconds">>
      [] e.type = "FileNotFoundError" ->
            <<"[Errno 2] ", "No such file", " or directory: ", e.filename>>
      [] e.type = "PermissionError" -> <<"[Errno 13] Permission denied: ", e.filename>>
      [] e.type = "UnicodeDecodeError" -> <<"'utf-8' codec can't decode byte">>
      [] e.type = "RecursionError" ->
            <<"maximum recursion depth exceeded while decoding a JSON array">>
      [] OTHER -> <<e.msg>>

\* fragments of process output that are one JSON document each
JsonDocuments == {"{a}", "{b}"}
\* a fragment nested deeper than the interpreter's recursion limit
DeepNesting == "[[[["

\* json.loads(line) on one line of process output: the decoded value, or the
\* exception it raises
json_loads(line) ==
    LET s == Strip(line) IN
    IF s = <<>> THEN [raises |-> "JSONDecodeError"]
    ELSE IF s[1] = DeepNesting THEN [raises |-> "RecursionError"]
    ELSE IF s[1] \in JsonDocuments /\ Len(s) = 1 THEN [value |-> [object |-> s[1]]]
    ELSE [raises |-> "JSONDecodeError"]

\* json.dumps(d) of a dict given as its ordered <<key, value>> pairs
json_dumps(d) == [json |-> d]

\* the caller's json.loads(envelope): key -> value, the last member of a key wins
Loads(text) ==
    LET d == text.json
        keys == {d[i][1] : i \in 1..Len(d)}
    IN  [k \in keys |->
            d[CHOOSE i \in 1..Len(d) : d[i][1] = k /\ \A j \in (i + 1)..Len(d) : d[j][1] # k][2]]

-----------------------------------------------------------------------------
(* What the body of an adapter's try block does before the process is     *)
(* waited for: it returns a dict, raises, or hands a command to            *)
(* subprocess.run.                                                         *)

Returns(d) == [kind |-> "return", env |-> d]
Raises(e) == [kind |-> "raise", exc |-> e]
\* Runs handing the command to the shell: subprocess.run(cmd, shell=True, ...)
Runs_through_shell(c, input, timeout) ==
    [kind |-> "run", cmd |-> c, input |-> input, timeout |-> timeout, shell |-> TRUE]

\* subprocess.run(cmd, capture_output=True, text=True, check=True[, input=...,
\* timeout=...]): no adapter passes shell=, which leaves it False
Runs(c, input, timeout) ==
    [kind |-> "run", cmd |-> c, input |-> input, timeout |-> timeout, shell |-> FALSE]

\* PlainExcept without its last clause, `except Exception`
PlainExcept_no_catch_all(e) ==
    IF IsInstance(e, "CalledProcessError")
    THEN Some(<< <<"success", FALSE>>, <<"error", Str(e)>>, <<"stderr", e.stderr>> >>)
    ELSE None

\* PlainExcept describing a non-zero exit without the captured stderr
PlainExcept_without_stderr(e) ==
    IF IsInstance(e, "Exception")
    THEN Some(<< <<"success", FALSE>>, <<"error", Str(e)>> >>)
    ELSE None

\* the except clauses shared by run_nmap, run_sqlmap, run_hashcat,
\* run_subfinder and run_xsstrike, in order; None when no clause catches e
PlainExcept(e) ==
    IF IsInstance(e, "CalledProcessError")
    THEN Some(<< <<"success", FALSE>>, <<"error", Str(e)>>, <<"stderr", e.stderr>> >>)
    ELSE IF IsInstance(e, "Exception")
    THEN Some(<< <<"success", FALSE>>, <<"error", Str(e)>> >>)
    ELSE None

(* run_nmap *)

nmap_cmd(target, ports, scan_type) ==
    <<Some("nmap"), Some("-oX"), Some("-"), target>>
        \o (IF TruthyStr(ports) THEN <<Some("-p"), ports>> ELSE <<>>)
        \o (IF TruthyStr(scan_type) THEN <<Some("-" \o Val(scan_type))>> ELSE <<>>)

nmap_try(a) == Runs(nmap_cmd(a.target, a.ports, a.scan_type), None, None)

\* nmap_result with the output stripped of surrounding whitespace
nmap_result_stripped(a, stdout) ==
    Returns(<< <<"success", TRUE>>, <<"target", a.target>>, <<"ports", a.ports>>,
              <<"scan_type", a.scan_type>>,
              <<"results", << <<"xml_output", Strip(stdout)>> >> >> >>)

nmap_result(a, stdout) ==
    Returns(<< <<"success", TRUE>>, <<"target", a.target>>, <<"ports", a.ports>>,
              <<"scan_type", a.scan_type>>,
              <<"results", << <<"xml_output", stdout>> >> >> >>)

nmap_except(e) == PlainExcept(e)

(* run_sqlmap *)

sqlmap_cmd(url, risk, level) ==
    <<Some("sqlmap"), Some("-u"), url, Some("--batch"), Some("--output-dir=/tmp/sqlmap")>>
        \o (IF TruthyInt(risk) THEN <<Some("--risk"), Some(ToString(Val(risk)))>> ELSE <<>>)
        \o (IF TruthyInt(level) THEN <<Some("--level"), Some(ToString(Val(level)))>> ELSE <<>>)

sqlmap_try(a) == Runs(sqlmap_cmd(a.url, a.risk, a.level), None, None)

sqlmap_result(a, stdout) ==
    Returns(<< <<"success", TRUE>>, <<"url", a.url>>, <<"risk", a.risk>>, <<"level", a.level>>,
              <<"results", << <<"output", stdout>> >> >> >>)

sqlmap_except(e) == PlainExcept(e)

(* run_hashcat *)

hash_mode_map ==
    [md5 |-> "0", sha1 |-> "100", sha256 |-> "1400", sha512 |-> "1700",
     ntlm |-> "1000", bcrypt |-> "3200"]

\* hashcat_mode looking the string up as written: hash_mode_map.get(hash_type, hash_type)
hashcat_mode_case_sensitive(hash_type) ==
    IF hash_type \in DOMAIN hash_mode_map THEN hash_mode_map[hash_type] ELSE hash_type

\* hash_mode_map.get(hash_type.lower(), hash_type)
hashcat_mode(hash_type) ==
    IF Lower(hash_type) \in DOMAIN hash_mode_map
    THEN hash_mode_map[Lower(hash_type)]
    ELSE hash_type

hashcat_cmd(hash_file, wordlist, mode) ==
    <<Some("hashcat"), Some("-m"), Some(mode), Some("--potfile-disable"),
      Some("--outfile-format=2"), hash_file, wordlist>>

hashcat_try(a) ==
    IF a.hash_type = None
    THEN Raises(AttributeError("'NoneType' object has no attribute 'lower'"))
    ELSE Runs(hashcat_cmd(a.hash_file, a.wordlist, hashcat_mode(Val(a.hash_type))), None, None)

hashcat_result(a, stdout) ==
    Returns(<< <<"success", TRUE>>, <<"hash_file", a.hash_file>>, <<"hash_type", a.hash_type>>,
              <<"mode", hashcat_mode(Val(a.hash_type))>>,
              <<"results", << <<"output", stdout>>, <<"cracked_hashes", <<>> >> >> >> >>)

hashcat_except(e) == PlainExcept(e)

(* run_subfinder *)

\* subfinder_cmd asking for recursive enumeration whatever the request says
subfinder_cmd_always_recursive(domain, recursive) ==
    <<Some("subfinder"), Some("-d"), domain, Some("-json"), Some("-recursive")>>

subfinder_cmd(domain, recursive) ==
    <<Some("subfinder"), Some("-d"), domain, Some("-json")>>
        \o (IF recursive THEN <<Some("-recursive")>> ELSE <<>>)

subfinder_try(a) == Runs(subfinder_cmd(a.domain, a.recursive), None, None)

\* the loop over result.stdout.strip().split('\n'): the list built, or the
\* exception that leaves the loop
RECURSIVE subfinder_parse(_, _)
subfinder_parse(lines, subdomains) ==
    IF lines = <<>> THEN [value |-> subdomains]
    ELSE IF Strip(Head(lines)) = <<>> THEN subfinder_parse(Tail(lines), subdomains)
    ELSE LET data == json_loads(Head(lines)) IN
         IF "value" \in DOMAIN data
         THEN subfinder_parse(Tail(lines), Append(subdomains, data.value))
         ELSE IF data.raises = "JSONDecodeError"
         THEN subfinder_parse(Tail(lines), subdomains)
         ELSE [raises |-> data.raises]

\* subfinder_result listing the records newest first
subfinder_result_newest_first(a, stdout) ==
    LET parsed == subfinder_parse(Split(Strip(stdout)), <<>>) IN
    IF "raises" \in DOMAIN parsed
    THEN Raises([type |-> parsed.raises])
    ELSE Returns(<< <<"success", TRUE>>, <<"domain", a.domain>>, <<"recursive", a.recursive>>,
                   <<"subdomains", [i \in 1..Len(parsed.value) |->
                                      parsed.value[Len(parsed.value) + 1 - i]]>>,
                   <<"count", Len(parsed.value)>> >>)

subfinder_result(a, stdout) ==
    LET parsed == subfinder_parse(Split(Strip(stdout)), <<>>) IN
    IF "raises" \in DOMAIN parsed
    THEN Raises([type |-> parsed.raises])
    ELSE Returns(<< <<"success", TRUE>>, <<"domain", a.domain>>, <<"recursive", a.recursive>>,
                   <<"subdomains", parsed.value>>, <<"count", Len(parsed.value)>> >>)

\* subfinder_except answering a failure with an empty list of subdomains
subfinder_except_with_empty_list(e) ==
    IF IsInstance(e, "Exception")
    THEN Some(<< <<"success", FALSE>>, <<"error", Str(e)>>,
                 <<"subdomains", <<>> >>, <<"count", 0>> >>)
    ELSE None

subfinder_except(e) == PlainExcept(e)

(* run_xsstrike *)

xsstrike_cmd(url, crawl) ==
    <<Some("xsstrike"), Some("-u"), url>> \o (IF crawl THEN <<Some("--crawl")>> ELSE <<>>)

xsstrike_try(a) == Runs(xsstrike_cmd(a.url, a.crawl), None, None)

\* xsstrike_result without the crawl flag of the request
xsstrike_result_without_crawl(a, stdout) ==
    Returns(<< <<"success", TRUE>>, <<"url", a.url>>,
              <<"results", << <<"output", stdout>> >> >> >>)

xsstrike_result(a, stdout) ==
    Returns(<< <<"success", TRUE>>, <<"url", a.url>>, <<"crawl", a.crawl>>,
              <<"results", << <<"output", stdout>> >> >> >>)

xsstrike_except(e) == PlainExcept(e)

(* run_httpx *)

\* status_codes = [int(sc) for sc in status_codes if sc is not None]
RECURSIVE httpx_status_codes(_)
httpx_status_codes(codes) ==
    IF codes = <<>> THEN <<>>
    ELSE IF Head(codes) = None THEN httpx_status_codes(Tail(codes))
    ELSE <<Val(Head(codes))>> \o httpx_status_codes(Tail(codes))

\* the "-sc" part of the command
httpx_status_filter(status_codes) ==
    IF TruthyList(status_codes)
    THEN LET codes == httpx_status_codes(Val(status_codes)) IN
         IF codes # <<>>
         THEN <<Some("-sc"), Some(JoinStr(",", [i \in 1..Len(codes) |-> ToString(codes[i])]))>>
         ELSE <<>>
    ELSE <<>>

\* httpx_target_args passing the first target inline whatever the number of targets
httpx_target_args_always_inline(targets) == <<Some("-u"), Some(targets[1])>>

\* "-u target" for one target, "-l -" for several
httpx_target_args(targets) ==
    IF Len(targets) = 1 THEN <<Some("-u"), Some(targets[1])>> ELSE <<Some("-l"), Some("-")>>

httpx_cmd(targets, status_codes) ==
    <<Some("httpx"), Some("-json"), Some("-silent")>>
        \o <<Some("-timeout"), Some("10")>>
        \o httpx_status_filter(status_codes)
        \o httpx_target_args(targets)

httpx_input_data(targets) == IF Len(targets) = 1 THEN None ELSE Some(Join("\n", targets))

\* httpx_timeout_seconds as the docstring has it: 30 seconds overall
httpx_timeout_seconds_fixed(targets) == 30

httpx_timeout_seconds(targets) == Max(20, (15 * Len(targets)) + 20)

httpx_try(a) ==
    IF ~TruthyList(a.targets) \/ Len(Val(a.targets)) = 0
    THEN Returns(<< <<"success", FALSE>>,
                   <<"error", <<"No targets provided.",
                               " Please provide at least one URL or IP address.">> >> >>)
    ELSE Runs(httpx_cmd(Val(a.targets), a.status_codes),
             httpx_input_data(Val(a.targets)),
             Some(httpx_timeout_seconds(Val(a.targets))))

RECURSIVE httpx_parse(_, _)
httpx_parse(output_lines, results) ==
    IF output_lines = <<>> THEN [value |-> results]
    ELSE IF Strip(Head(output_lines)) = <<>> THEN httpx_parse(Tail(output_lines), results)
    ELSE LET data == json_loads(Head(output_lines)) IN
         IF "value" \in DOMAIN data
         THEN httpx_parse(Tail(output_lines), Append(results, data.value))
         ELSE IF data.raises = "JSONDecodeError"
         THEN httpx_parse(Tail(output_lines), results)
         ELSE [raises |-> data.raises]

\* httpx_result counting the output lines instead of the parsed results
httpx_result_counts_lines(a, stdout) ==
    LET parsed == httpx_parse(Split(Strip(stdout)), <<>>) IN
    IF "raises" \in DOMAIN parsed
    THEN Raises([type |-> parsed.raises])
    ELSE Returns(<< <<"success", TRUE>>, <<"targets", a.targets>>,
                   <<"results", parsed.value>>, <<"count", Len(Split(Strip(stdout)))>> >>)

httpx_result(a, stdout) ==
    LET parsed == httpx_parse(Split(Strip(stdout)), <<>>) IN
    IF "raises" \in DOMAIN parsed
    THEN Raises([type |-> parsed.raises])
    ELSE Returns(<< <<"success", TRUE>>, <<"targets", a.targets>>,
                   <<"results", parsed.value>>, <<"count", Len(parsed.value)>> >>)

\* httpx_wrong_binary_phrases without "required dependencies"
httpx_wrong_binary_phrases_short ==
    { <<"command line client could not run">>,
      <<"pip install", " 'httpx[cli]'">> }

\* the phrases that mark the Python httpx client
httpx_wrong_binary_phrases ==
    { <<"command line client could not run">>,
      <<"required dependencies">>,
      <<"pip install", " 'httpx[cli]'">> }

httpx_install_hint ==
    <<"projectdiscovery httpx",
      ": go install -v github.com/projectdiscovery/httpx/cmd/httpx@latest">>

httpx_wrong_binary_error ==
    <<"Wrong httpx binary detected.", " Please install ", "projectdiscovery httpx",
      " (not Python httpx). Install with: go install -v github.com/projectdiscovery/httpx/cmd/httpx@latest">>

httpx_not_found_error == <<"httpx tool ", "not found", ". Please install ">> \o httpx_install_hint

\* except subprocess.CalledProcessError as e
httpx_called_process_error(e) ==
    LET error_msg == e.stderr \o e.stdout \o Str(e)
        error_lower == LowerText(error_msg)
    IN  IF \E phrase \in httpx_wrong_binary_phrases : Contains(error_lower, phrase)
        THEN << <<"success", FALSE>>, <<"error", httpx_wrong_binary_error>>,
                <<"stderr", e.stderr>>, <<"stdout", e.stdout>> >>
        ELSE IF Contains(error_lower, <<"no such file">>) \/ Contains(error_lower, <<"not found">>)
        THEN << <<"success", FALSE>>, <<"error", httpx_not_found_error>>,
                <<"stderr", e.stderr>>, <<"stdout", e.stdout>> >>
        ELSE << <<"success", FALSE>>,
                <<"error", <<"httpx execution failed: ">>
                              \o (IF e.stderr # <<>> THEN e.stderr ELSE Str(e))>>,
                <<"stderr", e.stderr>>, <<"stdout", e.stdout>> >>

\* httpx_timeout_expired reporting only the first target
httpx_timeout_expired_first_target(a, c, timeout) ==
    << <<"success", FALSE>>,
       <<"error", <<"httpx scan timed out after ", ToString(timeout), " seconds.",
                    " The httpx tool may be hanging or the target is unreachable. Command: ">>
                     \o Join(" ", [i \in 1..Len(c) |-> Val(c[i])])>>,
       <<"targets", Some(SubSeq(Val(a.targets), 1, 1))>>,
       <<"timeout_seconds", timeout>>,
       <<"suggestion", <<"The site may be slow, or httpx may be waiting for a response.">> >> >>

\* except subprocess.TimeoutExpired, around subprocess.run alone
httpx_timeout_expired(a, c, timeout) ==
    << <<"success", FALSE>>,
       <<"error", <<"httpx scan timed out after ", ToString(timeout), " seconds.",
                    " The httpx tool may be hanging or the target is unreachable. Command: ">>
                     \o Join(" ", [i \in 1..Len(c) |-> Val(c[i])])>>,
       <<"targets", a.targets>>,
       <<"timeout_seconds", timeout>>,
       <<"suggestion", <<"The site may be slow, or httpx may be waiting for a response.">> >> >>

\* the except clauses of run_httpx, inner try first; None when none catches e
httpx_except(e, a, c, timeout) ==
    IF IsInstance(e, "TimeoutExpired") THEN Some(httpx_timeout_expired(a, c, Val(timeout)))
    ELSE IF IsInstance(e, "CalledProcessError") THEN Some(httpx_called_process_error(e))
    ELSE IF IsInstance(e, "FileNotFoundError")
    THEN Some(<< <<"success", FALSE>>, <<"error", httpx_not_found_error>> >>)
    ELSE IF IsInstance(e, "Exception")
    THEN Some(<< <<"success", FALSE>>, <<"error", <<"Unexpected error: ">> \o Str(e)>> >>)
    ELSE None

-----------------------------------------------------------------------------
(* The calls the model makes and what the external process may do *)

Tools == {"nmap", "sqlmap", "hashcat", "subfinder", "xsstrike", "httpx"}
JsonLineTools == {"subfinder", "httpx"}

\* values of a required str parameter: None, empty, ordinary, and one with
\* characters a shell would act on
RequiredStr == {None, Some(""), Some("example.com"), Some("example.com; id")}

HashTypes ==
    {None} \cup {Some(h) : h \in {"md5", "MD5", "sha1", "sha256", "sha512", "ntlm", "NTLM",
                                  "bcrypt", "0", "1337", "Whirlpool"}}

\* target lists of 0, 1, 2, 3 and 10 targets
TargetLists ==
    { <<>>, <<"https://a">>, <<"not found">>,
      <<"https://a", "not found">>, <<"not found", "https://a">>,
      <<"https://a", "not found", "https://b">>,
      [i \in 1..10 |-> IF i = 7 THEN "https://b" ELSE "https://a"] }

StatusCodeLists ==
    {None, Some(<<>>), Some(<<Some(200), Some(301)>>), Some(<<None>>), Some(<<Some(404), None>>)}

\* standard output of a zero-exit process: lines, each ended by a newline, for
\* the JSON-lines tools; some text for the others
OutputLines == {<<>>, <<"{a}">>, <<" ", "{b}">>, <<"junk">>, <<"{a}", "{b}">>, <<DeepNesting>>}

RECURSIVE Unlines(_)
Unlines(lines) == IF lines = <<>> THEN <<>> ELSE Head(lines) \o <<"\n">> \o Unlines(Tail(lines))

RawTexts == {<<>>, <<"<nmaprun/>">>, <<" ", "line 1", "\n", "line 2", "\n">>}
ZeroExitStdouts(t) ==
    IF t \in JsonLineTools THEN {Unlines(ls) : ls \in SeqsUpTo(OutputLines, MaxOut)}
    ELSE RawTexts
ZeroExitStderrs(t) == IF t \in JsonLineTools THEN {<<>>} ELSE {<<>>, <<"warning">>}

\* <<stdout, stderr>> of a process that exits non-zero
ErrFragments ==
    {"boom", "Required Dependencies", "pip install", " 'httpx[cli]'", "Not Found",
     "command line client could not run"}
FailedOutputs(t) ==
    IF t = "httpx"
    THEN {p \in SeqsUpTo(ErrFragments, MaxErr) \X SeqsUpTo(ErrFragments, MaxErr) :
            Len(p[1]) + Len(p[2]) <= MaxErr}
    ELSE {<<>>, <<"partial">>} \X {<<>>, <<"boom">>}

FailedExits == {1, 2}

\* what the operating system answers when the executable is started
LaunchOutcomes == {"started", "FileNotFoundError", "PermissionError"}

-----------------------------------------------------------------------------
(* The adapters as one state machine *)

\* mcp_tools with gospider_filtered_scan registered under the name gospider_scan
mcp_tools_name_reused ==
    <<"nuclei_scan_wrapper", "ffuf_wrapper", "wfuzz_wrapper", "sqlmap_wrapper",
      "nmap_wrapper", "hashcat_wrapper", "httpx_wrapper", "subfinder_wrapper",
      "tlsx_wrapper", "xsstrike_wrapper", "ipinfo_wrapper", "amass_wrapper",
      "dirsearch_wrapper", "gospider_scan", "gospider_scan", "arjun_scan",
      "arjun_bulk_parameter_scan", "arjun_custom_parameter_scan">>

\* the functions main.py decorates with @mcp.tool(), in file order
mcp_tools ==
    <<"nuclei_scan_wrapper", "ffuf_wrapper", "wfuzz_wrapper", "sqlmap_wrapper",
      "nmap_wrapper", "hashcat_wrapper", "httpx_wrapper", "subfinder_wrapper",
      "tlsx_wrapper", "xsstrike_wrapper", "ipinfo_wrapper", "amass_wrapper",
      "dirsearch_wrapper", "gospider_scan", "gospider_filtered_scan", "arjun_scan",
      "arjun_bulk_parameter_scan", "arjun_custom_parameter_scan">>

\* the directory an argument tells the process to write its files to, if any
OutputDir(element) ==
    CASE element = "--output-dir=/tmp/sqlmap" -> Some("/tmp/sqlmap")
      [] OTHER -> None

\* the places in the file system a process started with command c writes to
Writes(c) ==
    {Val(OutputDir(Val(c[i]))) :
        i \in {j \in 1..Len(c) : c[j] # None /\ OutputDir(Val(c[j])) # None}}

\* requests that another client may have in flight while the call is served
PeerCalls ==
    { <<"sqlmap", [url |-> Some("example.com"), risk |-> Some(1), level |-> Some(1)]>>,
      <<"nmap", [target |-> Some("example.com"), ports |-> None, scan_type |-> None]>>,
      <<"httpx", [targets |-> Some(<<"https://a", "https://b">>), status_codes |-> None]>> }

Init ==
    /\ pc = "import"
    /\ tool = "none"
    /\ args = None
    /\ cmd = <<>>
    /\ input_data = None
    /\ timeout_seconds = None
    /\ proc = "none"
    /\ outcome = None
    /\ returned = <<>>
    /\ raised = <<>>
    /\ argv = <<>>
    /\ peer = None
    /\ registry = <<>>

callState ==
    <<tool, args, cmd, input_data, timeout_seconds, proc, outcome, returned, raised, argv>>

\* main.py is loaded: each @mcp.tool() registers the function below it
register ==
    /\ pc = "import"
    /\ Len(registry) < Len(mcp_tools)
    /\ registry' = Append(registry, mcp_tools[Len(registry) + 1])
    /\ UNCHANGED <<pc, callState, peer>>

\* mcp.run(transport="stdio"): the server starts to serve calls
mcp_run ==
    /\ pc = "import"
    /\ Len(registry) = Len(mcp_tools)
    /\ pc' = "idle"
    /\ UNCHANGED <<callState, peer, registry>>

\* the try block of adapter t up to subprocess.run
Try(t, a) ==
    CASE t = "nmap" -> nmap_try(a)
      [] t = "sqlmap" -> sqlmap_try(a)
      [] t = "hashcat" -> hashcat_try(a)
      [] t = "subfinder" -> subfinder_try(a)
      [] t = "xsstrike" -> xsstrike_try(a)
      [] t = "httpx" -> httpx_try(a)

\* the rest of the try block of adapter t, given the output of a zero exit
Result(t, a, stdout) ==
    CASE t = "nmap" -> nmap_result(a, stdout)
      [] t = "sqlmap" -> sqlmap_result(a, stdout)
      [] t = "hashcat" -> hashcat_result(a, stdout)
      [] t = "subfinder" -> subfinder_result(a, stdout)
      [] t = "xsstrike" -> xsstrike_result(a, stdout)
      [] t = "httpx" -> httpx_result(a, stdout)

\* the except clauses of adapter t
Except(t, e, a, c, timeout) ==
    CASE t = "nmap" -> nmap_except(e)
      [] t = "sqlmap" -> sqlmap_except(e)
      [] t = "hashcat" -> hashcat_except(e)
      [] t = "subfinder" -> subfinder_except(e)
      [] t = "xsstrike" -> xsstrike_except(e)
      [] t = "httpx" -> httpx_except(e, a, c, timeout)

\* subprocess.run(cmd, ...) up to the start of the process: an argument that is
\* not a str raises before anything is started
Popen(c, launch) ==
    IF \E i \in 1..Len(c) : c[i] = None
    THEN Raises(TypeError("expected str, bytes or os.PathLike object, not NoneType"))
    ELSE IF launch = "FileNotFoundError" THEN Raises(FileNotFoundError(Val(c[1])))
    ELSE IF launch = "PermissionError" THEN Raises(PermissionError(Val(c[1])))
    ELSE [kind |-> "started"]

\* the argument vector of the process subprocess.run starts for the list c:
\* the list itself, or, with shell=True, /bin/sh -c followed by the list
Exec(c, shell) ==
    (IF shell THEN <<"/bin/sh", "-c">> ELSE <<>>) \o [i \in 1..Len(c) |-> Val(c[i])]

\* the adapter leaves its function: with the dict of a return statement
\* serialised, or with an exception that either an except clause turns into a
\* dict or that goes on to the caller
Leave(t, a, c, timeout, step) ==
    LET caught == IF step.kind = "raise" THEN Except(t, step.exc, a, c, timeout)
                  ELSE Some(step.env)
    IN  /\ pc' = "done"
        /\ returned' = IF caught # None THEN Append(returned, json_dumps(Val(caught)))
                       ELSE returned
        /\ raised' = IF caught = None THEN Append(raised, step.exc) ELSE raised

\* a call of adapter t with arguments a, up to the point where it waits for
\* the process
Call(t, a) ==
    /\ pc = "idle"
    /\ UNCHANGED <<peer, registry>>
    /\ tool' = t
    /\ args' = a
    /\ outcome' = None
    /\ LET try == Try(t, a) IN
       IF try.kind = "run"
       THEN /\ cmd' = try.cmd
            /\ input_data' = try.input
            /\ timeout_seconds' = try.timeout
            /\ \E launch \in LaunchOutcomes, behaviour \in {"exits", "hangs"} :
                 LET started == Popen(try.cmd, launch) IN
                 IF started.kind = "started"
                 THEN /\ pc' = "running"
                      /\ proc' = behaviour
                      /\ argv' = Exec(try.cmd, try.shell)
                      /\ UNCHANGED <<returned, raised>>
                 ELSE /\ proc' = "none"
                      /\ UNCHANGED argv
                      /\ Leave(t, a, try.cmd, try.timeout, started)
       ELSE /\ UNCHANGED <<cmd, input_data, timeout_seconds, proc, argv>>
            /\ Leave(t, a, <<>>, None, try)

run_nmap ==
    /\ pc = "idle"
    /\ \E target \in RequiredStr, ports \in {None, Some(""), Some("22,80")},
       scan_type \in {None, Some("sV"), Some("sS")} :
        Call("nmap", [target |-> target, ports |-> ports, scan_type |-> scan_type])

run_sqlmap ==
    /\ pc = "idle"
    /\ \E url \in RequiredStr, risk \in {None, Some(-1), Some(0), Some(1), Some(4)},
       level \in {None, Some(0), Some(1), Some(6)} :
        Call("sqlmap", [url |-> url, risk |-> risk, level |-> level])

run_hashcat ==
    /\ pc = "idle"
    /\ \E hash_file \in RequiredStr, wordlist \in {None, Some("rockyou.txt")},
       hash_type \in HashTypes :
        Call("hashcat", [hash_file |-> hash_file, wordlist |-> wordlist, hash_type |-> hash_type])

run_subfinder ==
    /\ pc = "idle"
    /\ \E domain \in RequiredStr, recursive \in BOOLEAN :
        Call("subfinder", [domain |-> domain, recursive |-> recursive])

run_xsstrike ==
    /\ pc = "idle"
    /\ \E url \in RequiredStr, crawl \in BOOLEAN :
        Call("xsstrike", [url |-> url, crawl |-> crawl])

run_httpx ==
    /\ pc = "idle"
    /\ \E targets \in {None} \cup {Some(l) : l \in TargetLists}, status_codes \in StatusCodeLists :
        Call("httpx", [targets |-> targets, status_codes |-> status_codes])

\* the process exits with status 0: subprocess.run returns and the adapter
\* builds its result
ProcessSucceeds ==
    /\ pc = "running"
    /\ proc = "exits"
    /\ \E stdout \in ZeroExitStdouts(tool), stderr \in ZeroExitStderrs(tool) :
        /\ outcome' = Some([returncode |-> 0, stdout |-> stdout, stderr |-> stderr])
        /\ Leave(tool, args, cmd, timeout_seconds, Result(tool, args, stdout))
    /\ proc' = "exited"
    /\ UNCHANGED <<tool, args, cmd, input_data, timeout_seconds, argv, peer, registry>>

\* the process exits non-zero: check=True makes subprocess.run raise
\* CalledProcessError
ProcessFails ==
    /\ pc = "running"
    /\ proc = "exits"
    /\ \E returncode \in FailedExits, out \in FailedOutputs(tool) :
        /\ outcome' = Some([returncode |-> returncode, stdout |-> out[1], stderr |-> out[2]])
        /\ Leave(tool, args, cmd, timeout_seconds,
                 Raises(CalledProcessError(cmd, returncode, out[1], out[2])))
    /\ proc' = "exited"
    /\ UNCHANGED <<tool, args, cmd, input_data, timeout_seconds, argv, peer, registry>>

\* the process exits but its output is not valid UTF-8: text=True makes
\* subprocess.run raise UnicodeDecodeError
ProcessOutputUndecodable ==
    /\ pc = "running"
    /\ proc = "exits"
    /\ proc' = "exited"
    /\ Leave(tool, args, cmd, timeout_seconds, Raises(UnicodeDecodeError))
    /\ UNCHANGED <<tool, args, cmd, input_data, timeout_seconds, outcome, argv, peer, registry>>

\* the execution bound passes first: subprocess.run kills the process and
\* raises TimeoutExpired
ProcessTimesOut ==
    /\ pc = "running"
    /\ timeout_seconds # None
    /\ proc' = "killed"
    /\ Leave(tool, args, cmd, timeout_seconds, Raises(TimeoutExpired(cmd, Val(timeout_seconds))))
    /\ UNCHANGED <<tool, args, cmd, input_data, timeout_seconds, outcome, argv, peer, registry>>

\* the caller has its answer; the next call starts from scratch
CallEnds ==
    /\ pc = "done"
    /\ pc' = "idle"
    /\ tool' = "none"
    /\ args' = None
    /\ cmd' = <<>>
    /\ input_data' = None
    /\ timeout_seconds' = None
    /\ proc' = "none"
    /\ outcome' = None
    /\ returned' = <<>>
    /\ raised' = <<>>
    /\ argv' = <<>>
    /\ UNCHANGED <<peer, registry>>

\* another call of an adapter starts its process while this one is served
PeerStarts ==
    /\ pc # "import"
    /\ peer = None
    /\ \E call \in PeerCalls :
        LET try == Try(call[1], call[2]) IN
        /\ try.kind = "run"
        /\ peer' = Some([tool |-> call[1], args |-> call[2], cmd |-> try.cmd])
    /\ UNCHANGED <<pc, callState, registry>>

\* the other call's process is over
PeerEnds ==
    /\ peer # None
    /\ peer' = None
    /\ UNCHANGED <<pc, callState, registry>>

Next ==
    \/ register
    \/ mcp_run
    \/ run_nmap
    \/ run_sqlmap
    \/ run_hashcat
    \/ run_subfinder
    \/ run_xsstrike
    \/ run_httpx
    \/ ProcessSucceeds
    \/ ProcessFails
    \/ ProcessOutputUndecodable
    \/ ProcessTimesOut
    \/ CallEnds

Spec == Init /\ [][Next]_vars

\* the server with a second call in flight
ConcNext ==
    \/ Next
    \/ PeerStarts
    \/ PeerEnds

ConcSpec == Init /\ [][ConcNext]_vars

-----------------------------------------------------------------------------
(* Reading a finished call *)

\* the call has returned one envelope
Answered == pc = "done" /\ Len(returned) = 1
\* the envelope as the caller decodes it
Envelope == Loads(returned[1])
\* the adapter got as far as handing a command to subprocess.run
Built == tool # "none" /\ cmd # <<>>
\* subprocess.run returned or raised on the exit of the process
Exited == pc = "done" /\ outcome # None
ZeroExit == Exited /\ Val(outcome).returncode = 0
FailedExit == Exited /\ Val(outcome).returncode # 0

-----------------------------------------------------------------------------
(* C1 *)

\* C1: every call of an adapter ends with exactly one envelope that carries a
\* boolean success field, whatever the arguments and whatever the process did
\* (launch failure, non-zero exit, timeout, undecodable or unparsable output),
\* and no exception reaches the caller; before the call ends nothing is
\* returned.
C1_OneEnvelopePerCall ==
    /\ raised = <<>>
    /\ pc # "done" => returned = <<>>
    /\ pc = "done" =>
        /\ Len(returned) = 1
        /\ "success" \in DOMAIN Envelope
        /\ Envelope.success \in BOOLEAN

\* a launch failure of run_nmap answered by an error envelope
C1_Witness ==
    /\ Answered
    /\ tool = "nmap"
    /\ Built
    /\ proc = "none"
    /\ Envelope.success = FALSE
    /\ Contains(Envelope.error, <<"No such file">>)

(* C2 *)

\* C2: every external process invocation is time-bounded: a process that never
\* exits on its own runs under an execution bound, for every adapter.
C2_EveryProcessTimeBounded == (pc = "running" /\ proc = "hangs") => timeout_seconds # None

(* C3 *)

\* C3: run_httpx with exactly one target ends the argument vector with
\* "-u <target>", uses no "-l" and passes no standard input; with two or more
\* targets it ends the vector with "-l -", carries no "-u" and no target, and
\* the standard input is the targets, one per line, in input order.
C3_HttpxTargetForm ==
    (tool = "httpx" /\ Built) =>
        LET targets == Val(args.targets)
            n == Len(cmd)
        IN  IF Len(targets) = 1
            THEN /\ SubSeq(cmd, n - 1, n) = <<Some("-u"), Some(targets[1])>>
                 /\ \A i \in 1..n : cmd[i] # Some("-l")
                 /\ input_data = None
            ELSE /\ SubSeq(cmd, n - 1, n) = <<Some("-l"), Some("-")>>
                 /\ \A i \in 1..n : cmd[i] # Some("-u")
                 /\ \A i \in 1..n, j \in 1..Len(targets) : cmd[i] # Some(targets[j])
                 /\ input_data # None
                 /\ Split(Val(input_data)) = [j \in 1..Len(targets) |-> <<targets[j]>>]

\* run_httpx is waiting for a process it gave two different targets on stdin
C3_Witness ==
    /\ tool = "httpx"
    /\ pc = "running"
    /\ args.targets = Some(<<"not found", "https://a">>)
    /\ input_data = Some(<<"not found", "\n", "https://a">>)

(* C4 *)

C5_HttpxBoundTable ==
    (tool = "httpx" /\ Built) =>
        LET n == Len(Val(args.targets)) IN
        /\ n = 1 => timeout_seconds = Some(20)
        /\ n = 3 => timeout_seconds = Some(65)
        /\ n = 10 => timeout_seconds = Some(170)

(* C6 *)

\* the captured output of the finished process mentions the phrase, in any
\* letter case
Mentions(phrase) ==
    \/ Contains(LowerText(Val(outcome).stderr), phrase)
    \/ Contains(LowerText(Val(outcome).stdout), phrase)

WrongVariantAnswer ==
    /\ Answered
    /\ Envelope.success = FALSE
    /\ Envelope.error[1] = "Wrong httpx binary detected."
    /\ Contains(Envelope.error, <<"projectdiscovery httpx">>)
    /\ ~Contains(Envelope.error, <<"httpx execution failed: ">>)

\* C6 as stated: a non-zero exit of httpx whose captured output mentions
\* "required dependencies" or "pip install" is answered as the wrong binary
\* variant, never with the generic 'httpx execution failed'.
C6_AnyPipInstallIsWrongVariant ==
    (tool = "httpx" /\ FailedExit
        /\ (Mentions(<<"required dependencies">>) \/ Mentions(<<"pip install">>)))
    => WrongVariantAnswer

\* C6 amended: a non-zero exit of httpx whose captured output mentions
\* "command line client could not run", "required dependencies" or
\* "pip install 'httpx[cli]'" (in any letter case) is answered with
\* success=false and the wrong-binary error naming projectdiscovery httpx,
\* never with the generic 'httpx execution failed'.
C6_SignatureIsWrongVariant ==
    (tool = "httpx" /\ FailedExit
        /\ (\/ Mentions(<<"command line client could not run">>)
            \/ Mentions(<<"required dependencies">>)
            \/ Mentions(<<"pip install", " 'httpx[cli]'">>)))
    => WrongVariantAnswer

\* httpx exited non-zero saying "Required Dependencies" after another word on
\* stderr and was answered as the wrong variant
C6_Witness ==
    /\ tool = "httpx"
    /\ FailedExit
    /\ Val(outcome).stderr = <<"boom", "Required Dependencies">>
    /\ WrongVariantAnswer

(* C7 *)

Missing(o) == o = None \/ o = Some("") \/ o = Some(<<>>)

\* a required parameter of the call is None, empty, or an empty target list
MissingRequired ==
    CASE tool = "nmap" -> Missing(args.target)
      [] tool = "sqlmap" -> Missing(args.url)
      [] tool = "hashcat" ->
            Missing(args.hash_file) \/ Missing(args.wordlist) \/ Missing(args.hash_type)
      [] tool = "subfinder" -> Missing(args.domain)
      [] tool = "xsstrike" -> Missing(args.url)
      [] tool = "httpx" -> Missing(args.targets)
      [] OTHER -> FALSE

\* C7: a call with a missing required parameter is rejected before execution:
\* no external process is launched for it, and it is answered with
\* success=false.  (The envelope has no field for the error kind; the
\* classification is read as this rejection.)
C7_MissingRequiredRejected ==
    MissingRequired =>
        /\ proc = "none"
        /\ pc # "running"
        /\ pc = "done" => (Answered /\ Envelope.success = FALSE)

(* C8 *)

Aliases == {"md5", "sha1", "sha256", "sha512", "ntlm", "bcrypt"}

AliasMode(alias) ==
    CASE alias = "md5" -> "0"
      [] alias = "sha1" -> "100"
      [] alias = "sha256" -> "1400"
      [] alias = "sha512" -> "1700"
      [] alias = "ntlm" -> "1000"
      [] alias = "bcrypt" -> "3200"

\* the mode in the command and in a successful envelope is `mode`, and the
\* envelope keeps the caller's hash_type
HashcatUses(mode) ==
    /\ SubSeq(cmd, 2, 3) = <<Some("-m"), Some(mode)>>
    /\ (Answered /\ Envelope.success = TRUE) =>
        /\ Envelope.mode = mode
        /\ Envelope.hash_type = args.hash_type

\* C8 as stated: the six aliases map to their mode and any other string is
\* passed through unchanged.
C8_OnlyExactAliasesMapped ==
    (tool = "hashcat" /\ Built) =>
        LET h == Val(args.hash_type) IN
        HashcatUses(IF h \in Aliases THEN AliasMode(h) ELSE h)

\* C8 amended: the six aliases, written in any letter case, map to their
\* numeric mode; a string that is no alias in any letter case is passed
\* through unchanged; the mode follows -m in the argument vector and is
\* reported as 'mode', and 'hash_type' keeps the caller's string.
C8_AliasesMappedInAnyCase ==
    (tool = "hashcat" /\ Built) =>
        LET h == Val(args.hash_type) IN
        HashcatUses(IF Lower(h) \in Aliases THEN AliasMode(Lower(h)) ELSE h)

\* a successful run_hashcat with hash_type "NTLM" reported mode 1000 and kept
\* "NTLM" as hash_type
C8_Witness ==
    /\ tool = "hashcat"
    /\ Answered
    /\ Envelope.success = TRUE
    /\ args.hash_type = Some("NTLM")
    /\ Envelope.mode = "1000"
    /\ Envelope.hash_type = Some("NTLM")

(* C9 *)

\* the values of the lines that parse as JSON, in order
RECURSIVE ParsedLines(_)
ParsedLines(lines) ==
    IF lines = <<>> THEN <<>>
    ELSE (IF "value" \in DOMAIN json_loads(Head(lines))
          THEN <<json_loads(Head(lines)).value>> ELSE <<>>)
         \o ParsedLines(Tail(lines))

\* the list-shaped payload of a successful envelope
Payload == IF tool = "subfinder" THEN Envelope.subdomains ELSE Envelope.results

\* C9: whatever a zero-exit subfinder or httpx wrote to standard output, the
\* call returns success=true with exactly the lines that parse as JSON, in
\* order; a line that does not parse is dropped and changes nothing else.
C9_UnparsableLinesDropped ==
    (tool \in JsonLineTools /\ ZeroExit) =>
        /\ Answered
        /\ Envelope.success = TRUE
        /\ Payload = ParsedLines(Split(Val(outcome).stdout))

(* C10 *)

\* C10: a successful envelope of run_subfinder or run_httpx carries a count
\* equal to the length of its list, for every standard output.
C10_CountIsLength ==
    (tool \in JsonLineTools /\ Answered /\ Envelope.success = TRUE) =>
        /\ "count" \in DOMAIN Envelope
        /\ Envelope.count = Len(Payload)

\* httpx wrote three lines, the middle one no JSON, and the envelope counts 2
C10_Witness ==
    /\ tool = "httpx"
    /\ Answered
    /\ Envelope.success = TRUE
    /\ Val(outcome).stdout = <<"{a}", "\n", "junk", "\n", " ", "{b}", "\n">>
    /\ Payload = <<[object |-> "{a}"], [object |-> "{b}"]>>
    /\ Envelope.count = 2

(* C11 *)

\* standard outputs of two lines holding one JSON document each and one blank
\* line, the blank line first, between or last
TwoRecordsAndBlank ==
    LET records == {<<"{a}">>, <<" ", "{b}">>}
        blank == <<>>
    IN  {Unlines(ls) : ls \in {l \in [1..3 -> records \cup {blank}] :
                                   Cardinality({i \in 1..3 : l[i] = blank}) = 1}}

\* the documents of a standard output, in the order they were written
Emitted(stdout) ==
    LET docs == SelectSeq(stdout, LAMBDA f : f \in JsonDocuments)
    IN  [i \in 1..Len(docs) |-> [object |-> docs[i]]]

\* C11: run_subfinder(domain, recursive=false) whose process exits 0 after
\* writing two JSON lines and one blank line returns an envelope with exactly
\* the fields success=true, domain as given, recursive=false, subdomains = the
\* two records in the order written, count=2.
C11_SubfinderEndToEnd ==
    (/\ tool = "subfinder"
     /\ ZeroExit
     /\ args.recursive = FALSE
     /\ Val(outcome).stdout \in TwoRecordsAndBlank) =>
        /\ Answered
        /\ DOMAIN Envelope = {"success", "domain", "recursive", "subdomains", "count"}
        /\ Envelope.success = TRUE
        /\ Envelope.domain = args.domain
        /\ Envelope.recursive = FALSE
        /\ Envelope.subdomains = Emitted(Val(outcome).stdout)
        /\ Envelope.count = 2

\* subfinder wrote {b}, a blank line and {a}: the envelope lists b before a
C11_Witness ==
    /\ tool = "subfinder"
    /\ ZeroExit
    /\ Answered
    /\ args = [domain |-> Some("example.com"), recursive |-> FALSE]
    /\ Val(outcome).stdout = <<" ", "{b}", "\n", "\n", "{a}", "\n">>
    /\ Envelope.domain = Some("example.com")
    /\ Envelope.subdomains = <<[object |-> "{b}"], [object |-> "{a}"]>>
    /\ Envelope.count = 2

(* C12 *)

\* the process of the call was killed because its execution bound passed
TimedOut == pc = "done" /\ proc = "killed"

\* C12: when the httpx process is still running as the execution bound passes,
\* run_httpx raises nothing: it returns one envelope with success=false, with
\* timeout_seconds equal to the bound that was given to the process and with
\* targets equal to the list of the request, in the order given; and no
\* returned call of run_httpx leaves its process running.
C12_HttpxTimeoutEnvelope ==
    /\ (tool = "httpx" /\ pc = "done") => proc \in {"none", "exited", "killed"}
    /\ (tool = "httpx" /\ TimedOut) =>
        /\ Answered
        /\ raised = <<>>
        /\ Envelope.success = FALSE
        /\ {"timeout_seconds", "targets"} \subseteq DOMAIN Envelope
        /\ Envelope.timeout_seconds = Val(timeout_seconds)
        /\ Envelope.targets = args.targets

\* three targets, bound 65 seconds: the process is killed and the envelope
\* names 65 and the three targets in their order
C12_Witness ==
    /\ tool = "httpx"
    /\ TimedOut
    /\ Answered
    /\ timeout_seconds = Some(65)
    /\ Envelope.success = FALSE
    /\ Envelope.timeout_seconds = 65
    /\ Envelope.targets = Some(<<"https://a", "not found", "https://b">>)

(* C13 *)

\* subprocess.run could not start the executable of the command it was given
LaunchFailed ==
    /\ pc = "done"
    /\ Built
    /\ proc = "none"
    /\ \A i \in 1..Len(cmd) : cmd[i] # None

\* C13: when the httpx executable cannot be located or cannot be launched,
\* run_httpx returns a success=false envelope whose error says that the httpx
\* tool was not found and names projectdiscovery as the place to install it
\* from; the error is neither 'httpx execution failed' nor 'Unexpected error'.
C13_LaunchFailureIsToolNotFound ==
    (tool = "httpx" /\ LaunchFailed) =>
        /\ Answered
        /\ Envelope.success = FALSE
        /\ Contains(Envelope.error, <<"httpx tool ", "not found">>)
        /\ Contains(Envelope.error, <<"projectdiscovery httpx">>)
        /\ ~Contains(Envelope.error, <<"httpx execution failed: ">>)
        /\ ~Contains(Envelope.error, <<"Unexpected error: ">>)

(* C14 *)

\* C14: a call whose process exits non-zero returns success=false with a
\* non-empty error text and with the captured standard error, unchanged, as
\* stderr; run_httpx returns the captured standard output, unchanged, as
\* stdout as well.  (The httpx failures that are classified more specifically
\* carry the same two fields.)
C14_FailedExitCarriesOutput ==
    FailedExit =>
        /\ Answered
        /\ Envelope.success = FALSE
        /\ {"error", "stderr"} \subseteq DOMAIN Envelope
        /\ Envelope.error # <<>>
        /\ Envelope.stderr = Val(outcome).stderr
        /\ tool = "httpx" =>
            /\ "stdout" \in DOMAIN Envelope
            /\ Envelope.stdout = Val(outcome).stdout

\* nmap exited 2 after writing "boom" to standard error
C14_Witness ==
    /\ tool = "nmap"
    /\ FailedExit
    /\ Answered
    /\ Val(outcome).returncode = 2
    /\ Val(outcome).stderr = <<"boom">>
    /\ Envelope.stderr = <<"boom">>
    /\ Envelope.success = FALSE

\* httpx exited non-zero with "boom" on each stream and got the generic error
C14_WitnessHttpx ==
    /\ tool = "httpx"
    /\ FailedExit
    /\ Answered
    /\ Envelope.error[1] = "httpx execution failed: "
    /\ Envelope.stdout = <<"boom">>
    /\ Envelope.stderr = <<"boom">>

(* C15 *)

\* the command holds the option followed by the value, as two elements
HasOption(option, value) ==
    \E i \in 1..(Len(cmd) - 1) : cmd[i] = Some(option) /\ cmd[i + 1] = Some(value)

\* C15: for every integer risk and level that run_sqlmap is given, 0, negative
\* values and values above the documented range included, the command holds
\* "--risk" followed by the decimal text of risk and "--level" followed by the
\* decimal text of level.
C15_SqlmapPassesRiskAndLevel ==
    (tool = "sqlmap" /\ Built /\ args.url # None /\ args.risk # None /\ args.level # None) =>
        /\ HasOption("--risk", ToString(Val(args.risk)))
        /\ HasOption("--level", ToString(Val(args.level)))

(* C16 *)

\* an optional str parameter was given a value (not None, not the empty str)
Supplied(o) == o # None /\ Val(o) # ""

\* the command has the element somewhere
InCmd(element) == \E i \in 1..Len(cmd) : cmd[i] = Some(element)

\* the status codes of the request that are codes, in the order given
SuppliedCodes ==
    IF args.status_codes = None THEN <<>>
    ELSE SelectSeq(Val(args.status_codes), LAMBDA code : code # None)

RECURSIVE CommaJoined(_)
CommaJoined(codes) ==
    IF Len(codes) = 1 THEN ToString(Val(codes[1]))
    ELSE ToString(Val(codes[1])) \o "," \o CommaJoined(Tail(codes))

\* C16: the argument vector is a function of the request.  run_nmap puts
\* "-p", ports right after the target exactly when ports is supplied and ends
\* the vector with "-<scan_type>" exactly when scan_type is supplied;
\* run_subfinder adds "-recursive" exactly when recursive is true; run_xsstrike
\* adds "--crawl" exactly when crawl is true; run_httpx adds "-sc" followed by
\* the supplied codes joined by commas, in the order given, exactly when at
\* least one code is supplied.  Nothing else varies, so the same request
\* always gives the same vector.
C16_CommandConstruction ==
    Built =>
        /\ cmd = Try(tool, args).cmd
        /\ tool = "nmap" =>
            /\ SubSeq(cmd, 1, 4) = <<Some("nmap"), Some("-oX"), Some("-"), args.target>>
            /\ InCmd("-p") <=> Supplied(args.ports)
            /\ Supplied(args.ports) => (cmd[5] = Some("-p") /\ cmd[6] = args.ports)
            /\ (\E i \in 5..Len(cmd) : cmd[i] \in {Some("-sV"), Some("-sS")})
                  <=> Supplied(args.scan_type)
            /\ Supplied(args.scan_type) => cmd[Len(cmd)] = Some("-" \o Val(args.scan_type))
            /\ Len(cmd) = 4 + (IF Supplied(args.ports) THEN 2 ELSE 0)
                            + (IF Supplied(args.scan_type) THEN 1 ELSE 0)
        /\ tool = "subfinder" =>
            /\ SubSeq(cmd, 1, 4) = <<Some("subfinder"), Some("-d"), args.domain, Some("-json")>>
            /\ InCmd("-recursive") <=> args.recursive
            /\ Len(cmd) = 4 + (IF args.recursive THEN 1 ELSE 0)
        /\ tool = "xsstrike" =>
            /\ SubSeq(cmd, 1, 3) = <<Some("xsstrike"), Some("-u"), args.url>>
            /\ InCmd("--crawl") <=> args.crawl
            /\ Len(cmd) = 3 + (IF args.crawl THEN 1 ELSE 0)
        /\ tool = "httpx" =>
            /\ InCmd("-sc") <=> SuppliedCodes # <<>>
            /\ SuppliedCodes # <<>> => HasOption("-sc", CommaJoined(SuppliedCodes))
            /\ Len(cmd) = 7 + (IF SuppliedCodes # <<>> THEN 2 ELSE 0)

\* run_nmap("example.com", "22,80", "sV") started nmap with both options
\* after the target
C16_Witness ==
    /\ tool = "nmap"
    /\ pc = "running"
    /\ cmd = <<Some("nmap"), Some("-oX"), Some("-"), Some("example.com"),
               Some("-p"), Some("22,80"), Some("-sV")>>

\* run_httpx with status codes [404, None] started httpx with "-sc", "404"
C16_WitnessHttpx ==
    /\ tool = "httpx"
    /\ pc = "running"
    /\ args.status_codes = Some(<<Some(404), None>>)
    /\ HasOption("-sc", "404")

(* C17 *)

\* the str values of the request
StringParams ==
    LET given == CASE tool = "nmap" -> {args.target, args.ports, args.scan_type}
                   [] tool = "sqlmap" -> {args.url}
                   [] tool = "hashcat" -> {args.hash_file, args.wordlist, args.hash_type}
                   [] tool = "subfinder" -> {args.domain}
                   [] tool = "xsstrike" -> {args.url}
                   [] tool = "httpx" ->
                        {Some(Val(args.targets)[i]) : i \in 1..Len(Val(args.targets))}
    IN  {Val(o) : o \in given \ {None}}

\* the element of a vector is the value v, the nmap scan type v behind its
\* dash, or the hashcat mode that v names
Carries(element, v) ==
    \/ element = v
    \/ tool = "nmap" /\ args.scan_type = Some(v) /\ element = "-" \o v
    \/ tool = "hashcat" /\ Lower(v) \in Aliases /\ element = AliasMode(Lower(v))

\* the length of the vector, from the adapter and from which optional
\* parameters have a value
ShapeLen ==
    LET n(present, k) == IF present THEN k ELSE 0 IN
    CASE tool = "nmap" -> 4 + n(Supplied(args.ports), 2) + n(Supplied(args.scan_type), 1)
      [] tool = "sqlmap" -> 5 + n(args.risk \notin {None, Some(0)}, 2)
                              + n(args.level \notin {None, Some(0)}, 2)
      [] tool = "hashcat" -> 7
      [] tool = "subfinder" -> 4 + n(args.recursive, 1)
      [] tool = "xsstrike" -> 3 + n(args.crawl, 1)
      [] tool = "httpx" -> 7 + n(SuppliedCodes # <<>>, 2)

\* C17: the process an adapter starts receives the adapter's list as its
\* argument vector, element for element, with no shell in between; each str
\* of the request is carried by at most one element, whole, at the place the
\* adapter fixes for it; and the length of the vector depends only on the
\* adapter and on which optional parameters have a value, whatever
\* characters the strings hold.
C17_NoShellInterpretation ==
    argv # <<>> =>
        /\ Len(argv) = Len(cmd)
        /\ \A i \in 1..Len(cmd) : argv[i] = Val(cmd[i])
        /\ Len(argv) = ShapeLen
        /\ \A v \in StringParams :
              Cardinality({i \in 1..Len(argv) : Carries(argv[i], v)}) <= 1
        /\ tool = "nmap" => argv[4] = Val(args.target)
        /\ tool = "sqlmap" => argv[3] = Val(args.url)
        /\ tool = "hashcat" => argv[6] = Val(args.hash_file) /\ argv[7] = Val(args.wordlist)
        /\ tool = "subfinder" => argv[3] = Val(args.domain)
        /\ tool = "xsstrike" => argv[3] = Val(args.url)
        /\ (tool = "httpx" /\ Len(Val(args.targets)) = 1) =>
              argv[Len(argv)] = Val(args.targets)[1]

\* run_nmap("example.com; id") started nmap with the whole string as its
\* fourth and last argument
C17_Witness ==
    /\ tool = "nmap"
    /\ pc = "running"
    /\ args.target = Some("example.com; id")
    /\ argv = <<"nmap", "-oX", "-", "example.com; id">>

(* C18 *)

\* C18: two adapter calls whose processes run at the same time write to no
\* common place: every output location a call's command names belongs to that
\* call alone.
C18_InvocationsShareNothing ==
    (pc = "running" /\ peer # None) => Writes(cmd) \cap Writes(Val(peer).cmd) = {}

(* C19 *)

\* the names test_tool_registration expects
expected_tools ==
    {"nuclei_scan_wrapper", "ffuf_wrapper", "wfuzz_wrapper", "sqlmap_wrapper",
     "nmap_wrapper", "hashcat_wrapper", "httpx_wrapper", "subfinder_wrapper",
     "tlsx_wrapper", "xsstrike_wrapper", "ipinfo_wrapper", "amass_wrapper",
     "dirsearch_wrapper", "gospider_scan", "gospider_filtered_scan", "arjun_scan",
     "arjun_bulk_parameter_scan", "arjun_custom_parameter_scan"}

\* C19: once main.py is loaded and the server serves calls, the names it has
\* registered are exactly the 18 names test_tool_registration expects, none
\* missing and none extra; and at no time has a name been registered twice.
C19_RegisteredToolSet ==
    /\ \A i, j \in 1..Len(registry) : registry[i] = registry[j] => i = j
    /\ pc # "import" =>
        /\ {registry[i] : i \in 1..Len(registry)} = expected_tools
        /\ Len(registry) = Cardinality(expected_tools)

\* the server serves calls with 18 names registered, the last of them
\* arjun_custom_parameter_scan
C19_Witness ==
    /\ pc = "idle"
    /\ Len(registry) = 18
    /\ registry[1] = "nuclei_scan_wrapper"
    /\ registry[18] = "arjun_custom_parameter_scan"

(* C20 *)

\* the envelope has each of the parameters with the value of the request
Echoes(params) == \A k \in params : k \in DOMAIN Envelope /\ Envelope[k] = args[k]

\* the call returned a success=true envelope
Succeeded == Answered /\ Envelope.success = TRUE

\* C20 as stated: a successful envelope has every parameter of the call with
\* the value the caller supplied (nmap: target, ports, scan_type; sqlmap: url,
\* risk, level; subfinder: domain, recursive; xsstrike: url, crawl; hashcat:
\* hash_file, wordlist, hash_type; httpx: targets, status_codes).
C20_AllParametersEchoed ==
    Succeeded =>
        Echoes(CASE tool = "nmap" -> {"target", "ports", "scan_type"}
                 [] tool = "sqlmap" -> {"url", "risk", "level"}
                 [] tool = "subfinder" -> {"domain", "recursive"}
                 [] tool = "xsstrike" -> {"url", "crawl"}
                 [] tool = "hashcat" -> {"hash_file", "wordlist", "hash_type"}
                 [] tool = "httpx" -> {"targets", "status_codes"})

\* C20 amended: a successful envelope has these parameters of the call with
\* the value the caller supplied: nmap target, ports, scan_type; sqlmap url,
\* risk, level; subfinder domain, recursive; xsstrike url, crawl; hashcat
\* hash_file, hash_type; httpx targets.
C20_ParametersEchoed ==
    Succeeded =>
        Echoes(CASE tool = "nmap" -> {"target", "ports", "scan_type"}
                 [] tool = "sqlmap" -> {"url", "risk", "level"}
                 [] tool = "subfinder" -> {"domain", "recursive"}
                 [] tool = "xsstrike" -> {"url", "crawl"}
                 [] tool = "hashcat" -> {"hash_file", "hash_type"}
                 [] tool = "httpx" -> {"targets"})

\* run_sqlmap("example.com", 0, 6) succeeded and its envelope has the three
\* values
C20_Witness ==
    /\ tool = "sqlmap"
    /\ Succeeded
    /\ args = [url |-> Some("example.com"), risk |-> Some(0), level |-> Some(6)]
    /\ Envelope.url = Some("example.com")
    /\ Envelope.risk = Some(0)
    /\ Envelope.level = Some(6)

(* C21 *)

\* the results payload of the envelope, decoded
Results == Loads(json_dumps(Envelope.results))

\* C21: when the process of run_nmap, run_sqlmap, run_xsstrike or run_hashcat
\* exits 0, the envelope is successful and its results payload holds the
\* captured standard output exactly as captured, leading and trailing
\* whitespace included (nmap: xml_output; the others: output); the payload of
\* run_hashcat has cracked_hashes = [] whatever the output was.
C21_RawOutputVerbatim ==
    (tool \in {"nmap", "sqlmap", "xsstrike", "hashcat"} /\ ZeroExit) =>
        /\ Succeeded
        /\ "results" \in DOMAIN Envelope
        /\ tool = "nmap" =>
            /\ DOMAIN Results = {"xml_output"}
            /\ Results.xml_output = Val(outcome).stdout
        /\ tool \in {"sqlmap", "xsstrike"} =>
            /\ DOMAIN Results = {"output"}
            /\ Results.output = Val(outcome).stdout
        /\ tool = "hashcat" =>
            /\ DOMAIN Results = {"output", "cracked_hashes"}
            /\ Results.output = Val(outcome).stdout
            /\ Results.cracked_hashes = <<>>

\* nmap wrote two lines with a leading blank and a final newline
C21_Witness ==
    /\ tool = "nmap"
    /\ ZeroExit
    /\ Succeeded
    /\ Val(outcome).stdout = <<" ", "line 1", "\n", "line 2", "\n">>
    /\ Results.xml_output = <<" ", "line 1", "\n", "line 2", "\n">>

\* hashcat wrote some output and the envelope lists no cracked hash
C21_WitnessHashcat ==
    /\ tool = "hashcat"
    /\ ZeroExit
    /\ Succeeded
    /\ Val(outcome).stdout # <<>>
    /\ Results.output = Val(outcome).stdout
    /\ Results.cracked_hashes = <<>>

(* C22 *)

\* C22: the execution bound run_httpx passes to subprocess.run is at most 30
\* seconds, for any number of targets.
C22_HttpxBoundAtMost30 ==
    (tool = "httpx" /\ timeout_seconds # None) => Val(timeout_seconds) <= 30

(* C23 *)

\* C23: every command run_httpx builds asks httpx for a request timeout of 5
\* seconds, for at most 1 retry and for at most 3 redirects.
C23_HttpxRequestLimits ==
    (tool = "httpx" /\ Built) =>
        /\ HasOption("-timeout", "5")
        /\ HasOption("-retries", "1")
        /\ HasOption("-max-redirects", "3") \/ HasOption("-maxr", "3")

(* C24 *)

\* the error kind an envelope of run_httpx reports, read from its error text
ErrorKind ==
    CASE Envelope.error[1] = "Wrong httpx binary detected." -> "WrongBinaryVariant"
      [] Envelope.error[1] = "httpx tool " -> "ToolNotFound"
      [] Envelope.error[1] = "httpx execution failed: " -> "ExecutionFailed"
      [] Envelope.error[1] = "httpx scan timed out after " -> "Timeout"
      [] Envelope.error[1] = "No targets provided." -> "InvalidInput"
      [] OTHER -> "Unexpected"

\* the captured output shows one of the marks of the Python httpx client
WrongVariantSignature ==
    \/ Mentions(<<"command line client could not run">>)
    \/ Mentions(<<"required dependencies">>)
    \/ Mentions(<<"pip install", " 'httpx[cli]'">>)

\* C24: run_httpx reports the tool as not found only when the executable
\* could not be started; a process that was started, exited non-zero and
\* shows no wrong-variant signature is reported as 'httpx execution failed',
\* also when its output says "not found" or "no such file".
C24_NotFoundOnlyOnLaunchFailure ==
    (tool = "httpx" /\ Answered /\ Envelope.success = FALSE) =>
        /\ ErrorKind = "ToolNotFound" => LaunchFailed
        /\ (FailedExit /\ ~WrongVariantSignature) => ErrorKind = "ExecutionFailed"

(* C25 *)

\* the error kind that fixed, case-insensitive substring checks give to the
\* captured standard error and standard output, and to nothing else
KindOfOutput(stdout, stderr) ==
    LET text == LowerText(stderr \o stdout) IN
    IF \/ Contains(text, <<"command line client could not run">>)
       \/ Contains(text, <<"required dependencies">>)
       \/ Contains(text, <<"pip install", " 'httpx[cli]'">>)
    THEN "WrongBinaryVariant"
    ELSE IF Contains(text, <<"no such file">>) \/ Contains(text, <<"not found">>)
    THEN "ToolNotFound"
    ELSE "ExecutionFailed"

\* C25: the error kind run_httpx gives to a non-zero exit is decided by the
\* captured standard output and standard error alone: it is the kind the
\* substring checks give to that output, whatever the targets and the status
\* filter of the request were.
C25_KindFromOutputAlone ==
    (tool = "httpx" /\ FailedExit /\ Answered /\ Envelope.success = FALSE) =>
        ErrorKind = KindOfOutput(Val(outcome).stdout, Val(outcome).stderr)

(* C26 *)

\* the call is over and its process was never started, exited non-zero, or
\* was killed at the execution bound
ProcessDidNotSucceed ==
    /\ pc = "done"
    /\ Built
    /\ proc = "none" \/ proc = "killed" \/ FailedExit

\* C26: a success=true envelope is returned only for a process that was
\* started, was not killed at its execution bound and exited with status 0;
\* a launch failure, a non-zero exit and a timeout each give a success=false
\* envelope; and every success=false envelope has a non-empty error text and
\* no payload (no results, subdomains or count).
C26_SuccessOnlyOnZeroExit ==
    /\ Succeeded => (ZeroExit /\ proc = "exited" /\ argv # <<>>)
    /\ ProcessDidNotSucceed => (Answered /\ Envelope.success = FALSE)
    /\ (Answered /\ Envelope.success = FALSE) =>
        /\ "error" \in DOMAIN Envelope
        /\ Envelope.error # <<>>
        /\ DOMAIN Envelope \cap {"results", "subdomains", "count"} = {}

\* subfinder exited 2 after writing partial output: success=false, an error
\* text, no subdomains
C26_Witness ==
    /\ tool = "subfinder"
    /\ FailedExit
    /\ Val(outcome).stdout = <<"partial">>
    /\ Answered
    /\ Envelope.success = FALSE
    /\ Envelope.error # <<>>
    /\ "subdomains" \notin DOMAIN Envelope

\* httpx could not be started: success=false and no results
C26_WitnessLaunch ==
    /\ tool = "httpx"
    /\ LaunchFailed
    /\ Answered
    /\ Envelope.success = FALSE
    /\ "results" \notin DOMAIN Envelope

====
